---------------------------- MODULE Spec2Model ----------------------------
(***************************************************************************)
(* Startup denomination resolution (setDenom and                           *)
(* checkAndHandleDenomInfoProvidedByUser) and the start of the HTTP        *)
(* listener (Execute) of the exporter in src/main.go, together with the    *)
(* scrape handler that Execute registers (GeneralHandler), whose body is   *)
(* not part of src/ and is modelled from spec.md section 4.2.              *)
(***************************************************************************)
EXTENDS Integers, Sequences, FiniteSets, TLC

(***************************************************************************)
(* Bounds of the model.                                                    *)
(***************************************************************************)
MaxEntries == 2

MaxUnits == 2

NumHandlers == 2

NumQueries == 2

(***************************************************************************)
(* float64 values.  A value is a record [k, v]:                            *)
(*   k = "int" : the integer v (exactly representable),                    *)
(*   k = "p10" : the float64 nearest to 10^v, for v outside 0..9,          *)
(*   k = "inf" : +Inf.                                                     *)
(* The representation is canonical, so = is float equality.                *)
(***************************************************************************)
IntF(n) == [k |-> "int", v |-> n]

PosInf == [k |-> "inf", v |-> 0]

P10(n) == IF 0 <= n /\ n <= 9 THEN IntF(10^n) ELSE [k |-> "p10", v |-> n]

(***************************************************************************)
(* 64-bit words as four 16-bit limbs, least significant first.  A uint64   *)
(* and the int it converts to share the limbs; the top bit is the sign of  *)
(* the int.                                                                *)
(***************************************************************************)
Limb == 2^16

U64(n) == <<n % Limb, (n \div Limb) % Limb, 0, 0>>

U64Zero == U64(0)

\* 2^63, the smallest uint64 that int() turns negative.
U64Top == <<0, 0, 0, 2^15>>

\* 2^64 - 5, which int() turns into -5.
U64Last == <<Limb - 5, Limb - 1, Limb - 1, Limb - 1>>

\* int(DenomExponent): the bits are kept, the sign bit now counts.
IntOfUint64(u) == u

\* int(unit.Exponent): a uint32 is zero-extended.
IntOfUint32(e) == <<e % Limb, (e \div Limb) % Limb, 0, 0>>

IsNeg(n) == n[4] >= 2^15

\* math.Pow10(n) on an int given by its limbs.
Pow10(n) ==
    IF ~IsNeg(n) /\ n[2] = 0 /\ n[3] = 0 /\ n[4] = 0 /\ n[1] <= 308
    THEN P10(n[1])
    ELSE IF IsNeg(n) /\ n[2] = Limb - 1 /\ n[3] = Limb - 1 /\ n[4] = Limb - 1
            /\ n[1] >= Limb - 323
    THEN P10(n[1] - Limb)
    ELSE IF ~IsNeg(n) THEN PosInf
    ELSE IntF(0)

(***************************************************************************)
(* Log messages of the startup path.                                       *)
(***************************************************************************)
MsgStarted == "Started with following parameters"

MsgBoth == "denom-coefficient and denom-exponent are both provided. Must provide only one"

MsgUserCoefficient == "Using provided denom and coefficient."

MsgUserExponent == "Using provided denom and denom exponent and calculating coefficient."

MsgQueryError == "Error querying denom"

MsgNoDenoms == "No denom infos. Try running the binary with --denom and --denom-coefficient to set them manually."

MsgGotDenom == "Got denom info"

MsgNotFound == "Could not find the denom info"

MsgListening == "Listening"

MsgNoStart == "Could not start application"

(***************************************************************************)
(* Values of the globals when Execute runs.  Denom is bound to a string    *)
(* flag; DenomCoefficient and DenomExponent are package variables that     *)
(* the configuration layer fills in, 0 being the value Go gives them and   *)
(* 1 and 0 the values the override check reads as "not provided".          *)
(***************************************************************************)
DenomInputs == {"", "umee", "uatom"}

CoefficientInputs == {IntF(1), IntF(0), IntF(-2), IntF(1000000)}

ExponentInputs == {U64Zero, U64(6), U64(309), U64Top, U64Last}

(***************************************************************************)
(* Registries the node can answer with: banktypes.Metadata entries with a  *)
(* Display name and a list of DenomUnits {Denom, Exponent}.                *)
(***************************************************************************)
SeqsUpTo(S, n) == UNION {[1..m -> S] : m \in 0..n}

DenomUnit == [Denom : {"uumee", "umee"}, Exponent : {0, 6, 309}]

Metadata ==
    [Display : {"", "uumee", "umee"}, DenomUnits : SeqsUpTo(DenomUnit, MaxUnits)]

\* Entries that may follow the first one.
LaterMetadata ==
    {[Display |-> "umee", DenomUnits |-> <<[Denom |-> "umee", Exponent |-> 0]>>],
     [Display |-> "uumee", DenomUnits |-> <<[Denom |-> "uumee", Exponent |-> 6]>>]}

Metadatas ==
    {<<>>} \cup
    {<<m>> \o t : m \in Metadata, t \in SeqsUpTo(LaterMetadata, MaxEntries - 1)}

VARIABLES Denom, DenomCoefficient, DenomExponent, pc, logged, denoms, queries,
          handlers

config == <<Denom, DenomCoefficient, DenomExponent>>

vars == <<Denom, DenomCoefficient, DenomExponent, pc, logged, denoms, queries,
          handlers>>

Log(msg) == logged' = Append(logged, msg)


(***************************************************************************)
(* Variants of checkAndHandleDenomInfoProvidedByUser with one slip each.   *)
(***************************************************************************)
\* The test for both values being provided is missing.
checkWithoutBothTest(denom, coef, exp) ==
    IF denom # ""
    THEN IF coef # IntF(1)
         THEN [ret |-> "true", coef |-> coef, msg |-> MsgUserCoefficient]
         ELSE IF exp # U64Zero
         THEN [ret |-> "true", coef |-> Pow10(IntOfUint64(exp)),
               msg |-> MsgUserExponent]
         ELSE [ret |-> "false", coef |-> coef, msg |-> ""]
    ELSE [ret |-> "false", coef |-> coef, msg |-> ""]

\* The coefficient branch also recomputes the coefficient from the exponent.
checkRecomputingCoefficient(denom, coef, exp) ==
    IF denom # ""
    THEN IF coef # IntF(1) /\ exp # U64Zero
         THEN [ret |-> "fatal", coef |-> coef, msg |-> MsgBoth]
         ELSE IF coef # IntF(1)
         THEN [ret |-> "true", coef |-> Pow10(IntOfUint64(exp)),
               msg |-> MsgUserCoefficient]
         ELSE IF exp # U64Zero
         THEN [ret |-> "true", coef |-> Pow10(IntOfUint64(exp)),
               msg |-> MsgUserExponent]
         ELSE [ret |-> "false", coef |-> coef, msg |-> ""]
    ELSE [ret |-> "false", coef |-> coef, msg |-> ""]

\* The outer test for a non-empty symbol is missing.
checkWithoutSymbolTest(denom, coef, exp) ==
    IF coef # IntF(1) /\ exp # U64Zero
    THEN [ret |-> "fatal", coef |-> coef, msg |-> MsgBoth]
    ELSE IF coef # IntF(1)
    THEN [ret |-> "true", coef |-> coef, msg |-> MsgUserCoefficient]
    ELSE IF exp # U64Zero
    THEN [ret |-> "true", coef |-> Pow10(IntOfUint64(exp)),
          msg |-> MsgUserExponent]
    ELSE [ret |-> "false", coef |-> coef, msg |-> ""]

(***************************************************************************)
(* checkAndHandleDenomInfoProvidedByUser on the three globals.  ret is     *)
(* "fatal" (log.Fatal exits the process), "true" or "false"; coef is the   *)
(* value DenomCoefficient holds afterwards; msg is the message logged.     *)
(***************************************************************************)
checkAndHandleDenomInfoProvidedByUser(denom, coef, exp) ==
    IF denom # ""
    THEN IF coef # IntF(1) /\ exp # U64Zero
         THEN [ret |-> "fatal", coef |-> coef, msg |-> MsgBoth]
         ELSE IF coef # IntF(1)
         THEN [ret |-> "true", coef |-> coef, msg |-> MsgUserCoefficient]
         ELSE IF exp # U64Zero
         THEN [ret |-> "true", coef |-> Pow10(IntOfUint64(exp)),
               msg |-> MsgUserExponent]
         ELSE [ret |-> "false", coef |-> coef, msg |-> ""]
    ELSE [ret |-> "false", coef |-> coef, msg |-> ""]

\* Variant: the last entry instead of the first.
SelectLastMetadata(reg) == reg[Len(reg)]

\* metadata := denoms.Metadatas[0]
SelectMetadata(reg) == reg[1]

\* The loop over metadata.DenomUnits: the index of the first unit named
\* denom, or 0 when the loop ends without a match.
FindUnit(units, denom) ==
    IF \E i \in 1..Len(units) : units[i].Denom = denom
    THEN CHOOSE i \in 1..Len(units) :
            /\ units[i].Denom = denom
            /\ \A j \in 1..(i - 1) : units[j].Denom # denom
    ELSE 0

\* Variant of ScanMetadatas: every entry is searched, not only the first.
ScanAllMetadatas(denom, coef, reg) ==
    IF Len(reg) = 0
    THEN [ret |-> "fatal", denom |-> denom, coef |-> coef, msg |-> MsgNoDenoms]
    ELSE LET d == IF denom = "" THEN reg[1].Display ELSE denom
             hits == {e \in 1..Len(reg) : FindUnit(reg[e].DenomUnits, d) # 0}
         IN  IF hits # {}
             THEN LET e == CHOOSE x \in hits : \A y \in hits : x <= y
                      i == FindUnit(reg[e].DenomUnits, d)
                  IN  [ret |-> "ok", denom |-> d,
                       coef |-> Pow10(IntOfUint32(reg[e].DenomUnits[i].Exponent)),
                       msg |-> MsgGotDenom]
             ELSE [ret |-> "fatal", denom |-> d, coef |-> coef,
                   msg |-> MsgNotFound]

(***************************************************************************)
(* setDenom after a successful DenomsMetadata reply reg: ret is "fatal" or *)
(* "ok", denom and coef are the globals afterwards, msg the message.       *)
(***************************************************************************)
ScanMetadatas(denom, coef, reg) ==
    IF Len(reg) = 0
    THEN [ret |-> "fatal", denom |-> denom, coef |-> coef, msg |-> MsgNoDenoms]
    ELSE LET metadata == SelectMetadata(reg)
             d == IF denom = "" THEN metadata.Display ELSE denom
             i == FindUnit(metadata.DenomUnits, d)
         IN  IF i # 0
             THEN [ret |-> "ok", denom |-> d,
                   coef |-> Pow10(IntOfUint32(metadata.DenomUnits[i].Exponent)),
                   msg |-> MsgGotDenom]
             ELSE [ret |-> "fatal", denom |-> d, coef |-> coef,
                   msg |-> MsgNotFound]

(***************************************************************************)
(* The scrape handler's state, one record per execution context.           *)
(*   st      : "idle", "run" or "done"                                     *)
(*   results : the outcome of each node query issued so far                *)
(*   samples : the samples written to the response                         *)
(*   errs    : the scrape-error counter                                    *)
(*   status  : the HTTP status written (0: none yet)                       *)
(***************************************************************************)
IdleHandler ==
    [st |-> "idle", results |-> <<>>, samples |-> {}, errs |-> 0, status |-> 0]

Init ==
    /\ Denom \in DenomInputs
    /\ DenomCoefficient \in CoefficientInputs
    /\ DenomExponent \in ExponentInputs
    /\ pc = "Execute"
    /\ logged = <<MsgStarted>>
    /\ denoms = <<>>
    /\ queries = 0
    /\ handlers = [h \in 1..NumHandlers |-> IdleHandler]

(***************************************************************************)
(* Execute calls setDenom: the override check and, unless it settles the   *)
(* matter, the DenomsMetadata request, on which the process then blocks.   *)
(***************************************************************************)
setDenom ==
    /\ pc = "Execute"
    /\ LET r == checkAndHandleDenomInfoProvidedByUser(
                    Denom, DenomCoefficient, DenomExponent)
       IN  /\ DenomCoefficient' = r.coef
           /\ pc' = CASE r.ret = "fatal" -> "exit"
                      [] r.ret = "true" -> "returned"
                      [] OTHER -> "DenomsMetadata"
           /\ logged' = IF r.msg = "" THEN logged ELSE Append(logged, r.msg)
           /\ queries' = IF r.ret = "false" THEN queries + 1 ELSE queries
    /\ UNCHANGED <<Denom, DenomExponent, denoms, handlers>>

\* The node answers the DenomsMetadata request; setDenom runs to its end.
DenomsMetadataReply ==
    /\ pc = "DenomsMetadata"
    /\ \E reg \in Metadatas :
          LET r == ScanMetadatas(Denom, DenomCoefficient, reg)
          IN  /\ denoms' = reg
              /\ Denom' = r.denom
              /\ DenomCoefficient' = r.coef
              /\ pc' = IF r.ret = "ok" THEN "returned" ELSE "exit"
              /\ Log(r.msg)
    /\ UNCHANGED <<DenomExponent, queries, handlers>>

\* Variant of DenomsMetadataError: the error is logged and setDenom returns.
DenomsMetadataErrorLogged ==
    /\ pc = "DenomsMetadata"
    /\ pc' = "returned"
    /\ Log(MsgQueryError)
    /\ UNCHANGED <<config, denoms, queries, handlers>>

\* The DenomsMetadata request fails: err != nil.
DenomsMetadataError ==
    /\ pc = "DenomsMetadata"
    /\ pc' = "exit"
    /\ Log(MsgQueryError)
    /\ UNCHANGED <<config, denoms, queries, handlers>>

\* setDenom has returned: the handler is registered and the listener starts.
ListenAndServe ==
    /\ pc = "returned"
    /\ pc' = "listening"
    /\ denoms' = <<>>
    /\ Log(MsgListening)
    /\ UNCHANGED <<config, queries, handlers>>

\* http.ListenAndServe returns an error.
ListenAndServeError ==
    /\ pc = "returned"
    /\ pc' = "exit"
    /\ denoms' = <<>>
    /\ logged' = logged \o <<MsgListening, MsgNoStart>>
    /\ UNCHANGED <<config, queries, handlers>>

(***************************************************************************)
(* GeneralHandler, per spec.md 4.2: the queries of a scrape are issued one *)
(* after the other; each succeeds or fails on its own.                     *)
(***************************************************************************)
Accept(h) ==
    /\ pc = "listening"
    /\ handlers[h].st = "idle"
    /\ handlers' = [handlers EXCEPT ![h].st = "run"]
    /\ UNCHANGED <<config, pc, logged, denoms, queries>>

QuerySucceeds(h) ==
    /\ handlers[h].st = "run"
    /\ Len(handlers[h].results) < NumQueries
    /\ LET q == Len(handlers[h].results) + 1
       IN  handlers' = [handlers EXCEPT
               ![h].results = Append(@, "ok"),
               ![h].samples = @ \cup {[query |-> q, denom |-> Denom]}]
    /\ UNCHANGED <<config, pc, logged, denoms, queries>>

\* Variant of QueryFails: the first failure ends the scrape with an error.
QueryFailsAborts(h) ==
    /\ handlers[h].st = "run"
    /\ Len(handlers[h].results) < NumQueries
    /\ handlers' = [handlers EXCEPT
           ![h].results = Append(@, "fail"),
           ![h].st = "done",
           ![h].status = 500]
    /\ UNCHANGED <<config, pc, logged, denoms, queries>>

QueryFails(h) ==
    /\ handlers[h].st = "run"
    /\ Len(handlers[h].results) < NumQueries
    /\ handlers' = [handlers EXCEPT
           ![h].results = Append(@, "fail"),
           ![h].errs = @ + 1]
    /\ UNCHANGED <<config, pc, logged, denoms, queries>>

Respond(h) ==
    /\ handlers[h].st = "run"
    /\ Len(handlers[h].results) = NumQueries
    /\ handlers' = [handlers EXCEPT ![h].st = "done", ![h].status = 200]
    /\ UNCHANGED <<config, pc, logged, denoms, queries>>

\* The response is sent; the context serves the next scrape afresh.
Finish(h) ==
    /\ handlers[h].st = "done"
    /\ handlers' = [handlers EXCEPT ![h] = IdleHandler]
    /\ UNCHANGED <<config, pc, logged, denoms, queries>>

GeneralHandler ==
    \E h \in 1..NumHandlers :
        \/ Accept(h)
        \/ QuerySucceeds(h)
        \/ QueryFails(h)
        \/ Respond(h)
        \/ Finish(h)

Next ==
    \/ setDenom
    \/ DenomsMetadataReply
    \/ DenomsMetadataError
    \/ ListenAndServe
    \/ ListenAndServeError
    \/ GeneralHandler

Spec == Init /\ [][Next]_vars

(***************************************************************************)
(* The process runs its own steps whenever it can; nothing obliges the     *)
(* node to answer (DenomsMetadataReply, DenomsMetadataError): the request  *)
(* is made with context.Background(), which carries no deadline.           *)
(***************************************************************************)
FairSpec ==
    /\ Init
    /\ [][Next]_vars
    /\ WF_vars(setDenom)
    /\ WF_vars(ListenAndServe \/ ListenAndServeError)


(***************************************************************************)
(* Vocabulary of the properties.                                           *)
(***************************************************************************)
InLog(msg) == \E i \in 1..Len(logged) : logged[i] = msg

LastLog == logged[Len(logged)]

\* The float64 value of 10^n for a natural number n: +Inf beyond 308.
TenToThe(n) == IF n <= 308 THEN P10(n) ELSE PosInf

\* The same for a uint64 given by its limbs, read as an unsigned number.
TenToTheU64(u) ==
    IF u[2] = 0 /\ u[3] = 0 /\ u[4] = 0 THEN TenToThe(u[1]) ELSE PosInf

\* A float64 value above zero.
IsPositive(f) == f.k = "inf" \/ f.k = "p10" \/ (f.k = "int" /\ f.v > 0)

HasUnit(m, name) == \E i \in 1..Len(m.DenomUnits) : m.DenomUnits[i].Denom = name

ResolverOutcomes ==
    {MsgBoth, MsgUserCoefficient, MsgUserExponent, MsgQueryError, MsgNoDenoms,
     MsgGotDenom, MsgNotFound}

ResolverSuccesses == {MsgUserCoefficient, MsgUserExponent, MsgGotDenom}

\* The process has exited: no step is taken from there.
ExitIsFinal == pc = "exit" => UNCHANGED vars

(***************************************************************************)
(* C1: with a non-empty symbol and both coefficient and exponent set to    *)
(* non-default values, setDenom ends the process with the "both provided"  *)
(* fatal message, having changed neither value and issued no node query;   *)
(* a process that logged that message has exited and is never listening.   *)
(***************************************************************************)
C1_BothProvidedIsFatal ==
    /\ [][/\ (pc = "Execute" /\ Denom # "" /\ DenomCoefficient # IntF(1)
                 /\ DenomExponent # U64Zero)
             => /\ pc' = "exit"
                /\ logged' = Append(logged, MsgBoth)
                /\ queries' = 0
                /\ UNCHANGED config
          /\ ExitIsFinal]_vars
    /\ [](InLog(MsgBoth) => pc = "exit" /\ queries = 0)

C1_Witness ==
    /\ pc = "exit"
    /\ LastLog = MsgBoth
    /\ Denom = "umee"
    /\ DenomCoefficient = IntF(1000000)
    /\ DenomExponent = U64(6)
    /\ queries = 0

(***************************************************************************)
(* C2: with a non-empty symbol, a non-default coefficient and the default  *)
(* exponent, setDenom returns with symbol and coefficient as given and no  *)
(* node query issued, and neither is changed afterwards.                   *)
(***************************************************************************)
C2_CoefficientOverrideKept ==
    /\ [][/\ (pc = "Execute" /\ Denom # "" /\ DenomCoefficient # IntF(1)
                 /\ DenomExponent = U64Zero)
             => /\ pc' = "returned"
                /\ logged' = Append(logged, MsgUserCoefficient)
                /\ queries' = 0
                /\ UNCHANGED config
          /\ InLog(MsgUserCoefficient) => UNCHANGED <<config, queries>>]_vars
    /\ [](InLog(MsgUserCoefficient) => queries = 0 /\ pc # "DenomsMetadata")

C2_Witness ==
    /\ pc = "listening"
    /\ InLog(MsgUserCoefficient)
    /\ Denom = "umee"
    /\ DenomCoefficient = IntF(1000000)
    /\ DenomExponent = U64Zero
    /\ queries = 0

C4_FirstEntryOnly ==
    [][(pc = "DenomsMetadata" /\ Len(denoms') >= 1)
       => LET first == denoms'[1]
              symbol == IF Denom # "" THEN Denom ELSE first.Display
              units == first.DenomUnits
          IN  /\ Denom' = symbol
              /\ HasUnit(first, symbol) <=> pc' = "returned"
              /\ pc' = "returned" =>
                    \E i \in 1..Len(units) :
                       /\ units[i].Denom = symbol
                       /\ \A j \in 1..(i - 1) : units[j].Denom # symbol
                       /\ DenomCoefficient' = TenToThe(units[i].Exponent)]_vars

\* Resolved from entry 0 although entry 1 names the same symbol at another
\* exponent.
C4_Witness ==
    /\ pc = "returned"
    /\ LastLog = MsgGotDenom
    /\ Len(denoms) >= 2
    /\ Denom = "umee"
    /\ DenomCoefficient = IntF(1000000)
    /\ HasUnit(denoms[2], "umee")
    /\ denoms[2].Display = "umee"

(***************************************************************************)
(* C5: when the reply's entry 0 has no unit named by the operator's        *)
(* non-empty symbol, setDenom ends the process with the "not found" fatal  *)
(* message, DenomCoefficient keeps the value it had, and the one metadata  *)
(* query stays the only query.                                             *)
(***************************************************************************)
C5_SymbolNotInFirstEntryIsFatal ==
    [][/\ (pc = "DenomsMetadata" /\ Denom # "" /\ Len(denoms') >= 1
              /\ ~HasUnit(denoms'[1], Denom))
          => /\ pc' = "exit"
             /\ logged' = Append(logged, MsgNotFound)
             /\ DenomCoefficient' = DenomCoefficient
             /\ DenomCoefficient' = IntF(1)
             /\ Denom' = Denom
             /\ queries = 1
             /\ queries' = 1
       /\ ExitIsFinal]_vars

\* The operator's symbol is a unit of entry 1 but not of entry 0.
C5_Witness ==
    /\ pc = "exit"
    /\ LastLog = MsgNotFound
    /\ Len(denoms) >= 2
    /\ Denom = "umee"
    /\ denoms[1].Display = "uumee"
    /\ ~HasUnit(denoms[1], "umee")
    /\ HasUnit(denoms[2], "umee")
    /\ DenomCoefficient = IntF(1)
    /\ queries = 1

(***************************************************************************)
(* C6: with an empty symbol, whatever coefficient and exponent hold,       *)
(* setDenom logs no override or "both provided" message, changes nothing   *)
(* and issues the metadata query; a reply that resolves the denomination   *)
(* sets the coefficient from entry 0's unit named by entry 0's Display.    *)
(***************************************************************************)
C6_EmptySymbolSkipsOverrides ==
    [][/\ (pc = "Execute" /\ Denom = "")
          => /\ pc' = "DenomsMetadata"
             /\ queries' = queries + 1
             /\ logged' = logged
             /\ UNCHANGED config
       /\ (pc = "DenomsMetadata" /\ Denom = "" /\ pc' = "returned")
          => LET first == denoms'[1]
                 units == first.DenomUnits
             IN  /\ Denom' = first.Display
                 /\ \E i \in 1..Len(units) :
                       /\ units[i].Denom = first.Display
                       /\ \A j \in 1..(i - 1) : units[j].Denom # first.Display
                       /\ DenomCoefficient' = TenToThe(units[i].Exponent)]_vars

\* "uumee" is no operator input: the symbol was empty, the exponent given
\* (6) was not used.
C6_Witness ==
    /\ pc = "returned"
    /\ LastLog = MsgGotDenom
    /\ Denom = "uumee"
    /\ DenomExponent = U64(6)
    /\ DenomCoefficient = IntF(1)
    /\ queries = 1

(***************************************************************************)
(* C7: while the process is listening, the log holds exactly one resolver  *)
(* outcome and it is a success, and no step changes Denom or               *)
(* DenomCoefficient or leaves the listening state; once the log holds a    *)
(* resolver failure the process has exited, and it stays so.               *)
(***************************************************************************)
C7_ResolvedOnceBeforeListening ==
    /\ [](pc = "listening" =>
             /\ Cardinality({i \in 1..Len(logged) :
                                logged[i] \in ResolverOutcomes}) = 1
             /\ \E i \in 1..Len(logged) : logged[i] \in ResolverSuccesses)
    /\ [](\A i \in 1..Len(logged) :
             logged[i] \in ResolverOutcomes \ ResolverSuccesses => pc = "exit")
    /\ [][/\ pc = "listening" =>
                pc' = "listening" /\ UNCHANGED <<config, queries>>
          /\ ExitIsFinal]_vars

\* Two scrapes in progress at once.
C7_Witness ==
    /\ pc = "listening"
    /\ \E h, g \in 1..NumHandlers :
          /\ h # g
          /\ handlers[h].st = "done"
          /\ handlers[g].st = "run"
          /\ Len(handlers[g].results) = 1

(***************************************************************************)
(* C8: a scrape that has responded has issued every one of its queries,    *)
(* holds the samples of exactly the queries that succeeded, has counted    *)
(* one error per query that failed, and answered with status 200.          *)
(***************************************************************************)
C8_PartialFailureTolerated ==
    \A h \in 1..NumHandlers :
       handlers[h].st = "done" =>
          LET r == handlers[h].results
          IN  /\ Len(r) = NumQueries
              /\ {s.query : s \in handlers[h].samples}
                    = {q \in 1..Len(r) : r[q] = "ok"}
              /\ handlers[h].errs = Cardinality({q \in 1..Len(r) : r[q] = "fail"})
              /\ handlers[h].status = 200

\* One query failed and a later one succeeded.
C8_Witness ==
    \E h \in 1..NumHandlers :
       /\ handlers[h].st = "done"
       /\ handlers[h].results[1] = "fail"
       /\ handlers[h].results[2] = "ok"
       /\ handlers[h].errs = 1

(***************************************************************************)
(* C9: whenever setDenom has returned normally, DenomCoefficient is        *)
(* strictly positive.                                                      *)
(***************************************************************************)
C9_ResolvedCoefficientPositive ==
    pc \in {"returned", "listening"} => IsPositive(DenomCoefficient)

(***************************************************************************)
(* C10: setDenom eventually ends, by returning or by a fatal error.        *)
(***************************************************************************)
C10_ResolveTerminates == <>(pc \in {"returned", "listening", "exit"})

=============================================================================
